---------------------------- MODULE Spec2Model ----------------------------
(***************************************************************************)
(* Model of the scraping scripts of the repository.                        *)
(*                                                                         *)
(*   Examples/luluhypermarket_scraper.py                                   *)
(*       extract_product_data, scrape_products, save_to_csv, __main__      *)
(*   Examples/Book Scraper - AI-Generated/scraper.py                       *)
(*       BooksToScrapeScraper: get_page_content, extract_book_info,        *)
(*       scrape_books_from_page, get_all_page_urls, scrape_all_books,      *)
(*       save_to_csv, save_to_json                                         *)
(*   Examples/Book Scraper - AI-Generated/json_to_html.py                  *)
(*       the script of the generated page: filterBooks, changePage         *)
(*   Examples/math_quiz.py                                                 *)
(*                                                                         *)
(* One script runs in a behaviour: the first step from pc = "main" is      *)
(* Launch (the Lulu scraper), GetAllPageUrls (the Books scraper),          *)
(* LoadPage (the generated page) or StartQuiz (the quiz).                  *)
(* When a run has ended the same script can be run again: the files        *)
(* written and, for the Books scraper, self.books_data are kept.           *)
(* The page source is the environment: what a fetch returns is chosen in   *)
(* the action that makes the fetch.                                        *)
(*                                                                         *)
(* Text is a sequence of one-character strings, so that strip(),           *)
(* replace(",", "") and float() are computed and not assumed.  Python      *)
(* values are tagged records ([t |-> "str", ...], [t |-> "float", ...]),   *)
(* a dict is a function from its keys, and a missing key is a key that is  *)
(* not in the DOMAIN.                                                      *)
(***************************************************************************)
EXTENDS Integers, Sequences, FiniteSets, TLC

(***************************************************************************)
(* Bounds of the model (not program constants).                            *)
(***************************************************************************)
\* largest page index the driver is followed to
MaxPage == 3
\* largest number of elements the page source matches on one page
MaxElems == 2
\* largest number of elements the page source matches in a behaviour,
\* all runs together
MaxTotal == 3
\* largest number of books of one category in the data of a generated page
MaxBooks == 25
\* largest number of questions asked for in math_quiz
MaxQuestions == 2

(***************************************************************************)
(* Python values                                                           *)
(***************************************************************************)
None == [t |-> "None"]
NaN == [t |-> "NaN"]
Str(chars) == [t |-> "str", v |-> chars]
\* a float with value m / 10^s, m not divisible by 10 unless s = 0
Float(m, s) == [t |-> "float", m |-> m, s |-> s]
ValueError == [t |-> "ValueError"]
\* an absolute URL https://host/path?page=query; path is the sequence of
\* the segments after the leading "/", each a text (query 0: no query)
Url(host, path, query) == [t |-> "url", host |-> host, path |-> path, query |-> query]
\* a root-relative reference such as "/p/1"
Rel(path) == [t |-> "rel", path |-> path]
\* a reference relative to the directory of the base, such as "x/index.html"
RelDir(path) == [t |-> "reldir", path |-> path]
\* a list or frame held by a variable that can also be None
List(v) == [t |-> "list", v |-> v]
\* the result of a call that raised instead of returning
Raised == [t |-> "raised"]

\* BASE_URL + page_number
BASE_URL(n) ==
    Url("gcc.luluhypermarket.com",
        << <<"a", "r", "-", "s", "a">>,
           <<"e", "l", "e", "c", "t", "r", "o", "n", "i", "c", "s", "-", "g", "a", "m", "i", "n", "g">> >>,
        n)
OUTPUT_FILE == "luluhypermarket_products.csv"

(***************************************************************************)
(* str.strip(), str.replace(",", ""), float(str), urljoin                  *)
(***************************************************************************)
Whitespace == {" ", "\t", "\n"}
Digits == {"0", "1", "2", "3", "4", "5", "6", "7", "8", "9"}

RECURSIVE lstrip(_)
lstrip(s) == IF s # <<>> /\ Head(s) \in Whitespace THEN lstrip(Tail(s)) ELSE s

RECURSIVE rstrip(_)
rstrip(s) ==
    IF s # <<>> /\ s[Len(s)] \in Whitespace
    THEN rstrip(SubSeq(s, 1, Len(s) - 1))
    ELSE s

strip(s) == rstrip(lstrip(s))

\* variant: the thousands separators are left in the text
replace_comma_none(s) == s

\* s.replace(",", "")
replace_comma(s) == SelectSeq(s, LAMBDA c : c # ",")

DigitVal(c) == CHOOSE d \in 0..9 : <<"0", "1", "2", "3", "4", "5", "6", "7", "8", "9">>[d + 1] = c

RECURSIVE DigitsVal(_)
DigitsVal(s) == IF s = <<>> THEN 0 ELSE 10 * DigitsVal(SubSeq(s, 1, Len(s) - 1)) + DigitVal(s[Len(s)])

RECURSIVE Normalize(_, _)
Normalize(m, s) == IF s > 0 /\ m % 10 = 0 THEN Normalize(m \div 10, s - 1) ELSE Float(m, s)

\* float(text) for plain decimal text: digits with at most one ".", at
\* least one digit; anything else is a ValueError
float(text) ==
    LET s == strip(text)
        dots == SelectSeq(s, LAMBDA c : c = ".")
        digs == SelectSeq(s, LAMBDA c : c \in Digits)
        dot == CHOOSE i \in 1..Len(s) : s[i] = "."
    IN  IF Len(digs) = 0 \/ Len(dots) > 1 \/ Len(digs) + Len(dots) # Len(s)
        THEN ValueError
        ELSE IF Len(dots) = 0 THEN Float(DigitsVal(digs), 0)
        ELSE Normalize(DigitsVal(digs), Len(s) - dot)

\* urllib.parse.urljoin(base, url): an empty url (None, "") gives the
\* base, an absolute url is kept, a root-relative one takes the base's
\* host, and a relative one replaces the last segment of the base's path
urljoin(base, url) ==
    IF url = None \/ url = Str(<<>>) THEN base
    ELSE IF url.t = "url" THEN url
    ELSE IF url.t = "rel" THEN Url(base.host, url.path, 0)
    ELSE Url(base.host, SubSeq(base.path, 1, Len(base.path) - 1) \o url.path, 0)

(***************************************************************************)
(* The elements the page source can match                                  *)
(***************************************************************************)
\* raises: the call of extract_product_data at which the element handle
\* raises a Playwright error: the query_selector of "img", "a" or "price",
\* or the get_attribute of "href" ("none": at no call)
Element(img, a, price, raises) == [img |-> img, a |-> a, price |-> price, raises |-> raises]

\* the references "/i/1.png" and "/p/1"
Src1 == Rel(<< <<"i">>, <<"1", ".", "p", "n", "g">> >>)
Href1 == Rel(<< <<"p">>, <<"1">> >>)

Img == [src |-> Src1]
GoodPrice == [text |-> <<" ", "1", ",", "2", "9", "9", ".", "0", "0">>]
BadPrice == [text |-> <<"a", "b", "c">>]

\* a complete product card
E_full == Element(Img, [text |-> <<" ", "A", "\n">>, href |-> Href1], GoodPrice, "none")
\* the same product listed again, without image and with a price text
\* that is not a number
E_again == Element(None, [text |-> <<"A">>, href |-> Href1], BadPrice, "none")
\* another name behind the same link, without a price span
E_noprice == Element(Img, [text |-> <<"B">>, href |-> Href1], None, "none")
\* the first name on an anchor without href
E_nohref == Element(Img, [text |-> <<"A">>, href |-> None], GoodPrice, "none")
\* a card without name anchor
E_noname == Element(Img, None, GoodPrice, "none")
\* a card whose handle raises when the price span is queried
E_raises == Element(Img, [text |-> <<"B">>, href |-> Href1], None, "price")

\* a card whose anchor raises when its href is read, after its text
E_hrefraises == Element(None, [text |-> <<"B">>, href |-> Href1], None, "href")

Elements == {E_full, E_again, E_noprice, E_nohref, E_noname, E_raises, E_hrefraises}

\* the sequences of at most n elements
ElementLists(n) == UNION {[1..k -> Elements] : k \in 0..n}

(***************************************************************************)
(* extract_product_data                                                    *)
(***************************************************************************)
\* variant: a price text that is not a number gives the price 0.0
parse_price_zero(price_text) ==
    LET f == float(price_text)
    IN  IF f = ValueError THEN Float(0, 0) ELSE f

\* try: product['price'] = float(price_text)
\* except ValueError: product['price'] = None
parse_price(price_text) ==
    LET f == float(price_text)
    IN  IF f = ValueError THEN None ELSE f

\* variant: the product is returned whether or not it has a name
return_product_always(product) == product

\* return product if 'name' in product else None
return_product(product) == IF "name" \in DOMAIN product THEN product ELSE None

\* variant: when the href cannot be read the product keeps its name
set_name_link_partial(product, element, page_url) ==
    LET named == product @@ ("name" :> Str(strip(element.a.text)))
    IN  IF element.raises = "href" THEN named
        ELSE named @@ ("link" :> urljoin(page_url, element.a.href))

\* product['name'] = a_element.text_content().strip()
\* product['link'] = urljoin(page_url, a_element.get_attribute('href'))
set_name_link(product, element, page_url) ==
    LET named == product @@ ("name" :> Str(strip(element.a.text)))
    IN  IF element.raises = "href" THEN Raised
        ELSE named @@ ("link" :> urljoin(page_url, element.a.href))

\* the body of the try block; Raised when a statement of it raises
extract_try(element, page_url) ==
    IF element.raises = "img" THEN Raised
    ELSE
    LET p1 == "image_url" :> (IF element.img # None THEN element.img.src ELSE None)
    IN  IF element.raises = "a" THEN Raised
        ELSE
        LET p2 == IF element.a # None
                  THEN set_name_link(p1, element, page_url)
                  ELSE p1
        IN  IF p2 = Raised \/ element.raises = "price" THEN Raised
            ELSE
            LET p3 == IF element.price # None
                      THEN LET price_text == replace_comma(strip(element.price.text))
                           IN  p2 @@ ("price" :> parse_price(price_text))
                      ELSE p2
            IN  return_product(p3)

\* variant: without the except clause
extract_product_data_uncaught(element, page_url) == extract_try(element, page_url)

\* except Exception: log and return None
extract_product_data(element, page_url) ==
    LET r == extract_try(element, page_url)
    IN  IF r = Raised THEN None ELSE r

\* extract_product_data(element, page.url) for each element the source
\* can match and each page index, computed once
Extracted ==
    [element \in Elements, n \in 1..MaxPage |->
        extract_product_data(element, BASE_URL(n))]

(***************************************************************************)
(* pandas: DataFrame(records), drop_duplicates, to_csv                     *)
(***************************************************************************)
\* the columns, in the order the keys are inserted by extract_product_data
Columns(recs) ==
    SelectSeq(<<"image_url", "name", "link", "price">>,
              LAMBDA c : \E i \in 1..Len(recs) : c \in DOMAIN recs[i])

\* a missing key is NaN; None is NaN too in a column that holds a float
DataFrame(recs) ==
    LET cols == {c \in {"image_url", "name", "link", "price"} :
                    \E i \in 1..Len(recs) : c \in DOMAIN recs[i]}
        numeric(c) == \E i \in 1..Len(recs) :
                          c \in DOMAIN recs[i] /\ recs[i][c].t = "float"
    IN  [i \in 1..Len(recs) |->
            [c \in cols |->
                IF c \notin DOMAIN recs[i] THEN NaN
                ELSE IF recs[i][c] = None /\ numeric(c) THEN NaN
                ELSE recs[i][c]]]

\* the value a row is compared by under subset=["name", "link"]
Key(row) == <<row["name"], row["link"]>>

\* variant: keep="last"
drop_duplicates_keep_last(df) ==
    LET duplicated(i) == \E j \in (i + 1)..Len(df) : Key(df[j]) = Key(df[i])
        F[i \in 0..Len(df)] ==
            IF i = 0 THEN <<>>
            ELSE IF duplicated(i) THEN F[i - 1] ELSE Append(F[i - 1], df[i])
    IN  F[Len(df)]

\* variant: only the first duplicate row found is dropped
drop_duplicates_one(df) ==
    LET dups == {i \in 1..Len(df) : \E j \in 1..(i - 1) : Key(df[j]) = Key(df[i])}
    IN  IF dups = {} THEN df
        ELSE LET m == CHOOSE i \in dups : \A k \in dups : i <= k
             IN  SubSeq(df, 1, m - 1) \o SubSeq(df, m + 1, Len(df))

\* df.drop_duplicates(subset=["name", "link"]) with the default
\* keep="first": a row is dropped when an earlier row has its key
drop_duplicates(df) ==
    LET duplicated(i) == \E j \in 1..(i - 1) : Key(df[j]) = Key(df[i])
        F[i \in 0..Len(df)] ==
            IF i = 0 THEN <<>>
            ELSE IF duplicated(i) THEN F[i - 1] ELSE Append(F[i - 1], df[i])
    IN  F[Len(df)]

\* the decimal digits of a natural number
RECURSIVE DigitsOf(_)
DigitsOf(n) ==
    LET d == << <<"0", "1", "2", "3", "4", "5", "6", "7", "8", "9">>[(n % 10) + 1] >>
    IN  IF n < 10 THEN d ELSE DigitsOf(n \div 10) \o d

RECURSIVE Pow10(_)
Pow10(s) == IF s = 0 THEN 1 ELSE 10 * Pow10(s - 1)

RECURSIVE ZeroPad(_, _)
ZeroPad(s, w) == IF Len(s) >= w THEN s ELSE ZeroPad(<<"0">> \o s, w)

\* the text a float is written as: the shortest decimal text, with at
\* least one digit after the point ("1299.0", "12.5")
repr(f) ==
    IF f.s = 0 THEN DigitsOf(f.m) \o <<".", "0">>
    ELSE DigitsOf(f.m \div Pow10(f.s)) \o <<".">>
             \o ZeroPad(DigitsOf(f.m % Pow10(f.s)), f.s)

\* df.to_csv(index=False): the header and one line per row; NaN and None
\* are written as the empty cell, a float as its text
to_csv(df, cols) ==
    [header |-> cols,
     rows |-> [i \in 1..Len(df) |->
                 [k \in 1..Len(cols) |->
                     LET v == df[i][cols[k]]
                     IN  IF v \in {NaN, None} THEN Str(<<>>)
                         ELSE IF v.t = "float" THEN Str(repr(v))
                         ELSE v]]]

(***************************************************************************)
(* Examples/Book Scraper - AI-Generated/scraper.py: BooksToScrapeScraper   *)
(***************************************************************************)
\* self.base_url, "https://books.toscrape.com/"
base_url == Url("books.toscrape.com", << <<>> >>, 0)

\* the text "page-<n>.html"
PageFile(n) ==
    <<"p", "a", "g", "e", "-">>
    \o << <<"0", "1", "2", "3", "4", "5", "6", "7", "8", "9">>[n + 1] >>
    \o <<".", "h", "t", "m", "l">>

\* self.base_url + f"catalogue/page-{n}.html"
PageUrl(n) ==
    Url(base_url.host, << <<"c", "a", "t", "a", "l", "o", "g", "u", "e">>, PageFile(n) >>, 0)

\* the page number a page URL was built from
PageIndex(url) == CHOOSE n \in 0..9 : PageUrl(n) = url

LowerCase == <<"a", "b", "c", "d", "e", "f", "g", "h", "i", "j", "k", "l", "m",
               "n", "o", "p", "q", "r", "s", "t", "u", "v", "w", "x", "y", "z">>
UpperCase == <<"A", "B", "C", "D", "E", "F", "G", "H", "I", "J", "K", "L", "M",
               "N", "O", "P", "Q", "R", "S", "T", "U", "V", "W", "X", "Y", "Z">>

IsLetter(c) == \E k \in 1..26 : c = LowerCase[k] \/ c = UpperCase[k]
upper(c) == IF \E k \in 1..26 : c = LowerCase[k]
            THEN UpperCase[CHOOSE k \in 1..26 : c = LowerCase[k]] ELSE c
lower(c) == IF \E k \in 1..26 : c = UpperCase[k]
            THEN LowerCase[CHOOSE k \in 1..26 : c = UpperCase[k]] ELSE c

\* str.title(): a letter is upper case after a non-letter, else lower case
title(s) ==
    [k \in 1..Len(s) |->
        IF ~IsLetter(s[k]) THEN s[k]
        ELSE IF k = 1 \/ ~IsLetter(s[k - 1]) THEN upper(s[k]) ELSE lower(s[k])]

\* s.replace('-', ' ')
replace_dash(s) == [k \in 1..Len(s) |-> IF s[k] = "-" THEN " " ELSE s[k]]

\* path_parts = urlparse(book_url).path.split('/'): the empty text before
\* the leading "/" and then the segments
_extract_category_from_url(book_url) ==
    LET path_parts == << <<>> >> \o book_url.path
    IN  IF Len(path_parts) >= 4
        THEN Str(title(replace_dash(path_parts[4])))
        ELSE Str(<<>>)

\* tag.get(name, ''): the attribute, or '' when the tag does not have it
get(attr) == IF attr = None THEN Str(<<>>) ELSE attr

\* variant: an anchor without title attribute gives the empty dict too
extract_book_info_titled(book_element) ==
    IF book_element.h3 = None \/ book_element.h3.a = None
       \/ book_element.h3.a.title = None
    THEN << >>
    ELSE
    LET title_element == book_element.h3.a
        book_url == urljoin(base_url, get(title_element.href))
    IN  [title |-> Str(strip(get(title_element.title).v)),
         price |-> IF book_element.price_color # None
                   THEN Str(strip(book_element.price_color.text)) ELSE Str(<<>>),
         rating |-> IF book_element.star_rating # None
                       /\ Len(book_element.star_rating.class) > 1
                    THEN Str(book_element.star_rating.class[2]) ELSE Str(<<>>),
         availability |-> IF book_element.availability # None
                          THEN Str(strip(book_element.availability.text)) ELSE Str(<<>>),
         book_url |-> book_url,
         image_url |-> IF book_element.img # None
                       THEN urljoin(base_url, get(book_element.img.src))
                       ELSE Str(<<>>),
         category |-> _extract_category_from_url(book_url)]

\* extract_book_info: the record of one article element, or the empty
\* dict when book_element.find('h3').find('a') or a use of its result
\* raises (no h3, or no anchor in it)
extract_book_info(book_element) ==
    IF book_element.h3 = None \/ book_element.h3.a = None
    THEN << >>
    ELSE
    LET title_element == book_element.h3.a
        book_url == urljoin(base_url, get(title_element.href))
    IN  [title |-> Str(strip(get(title_element.title).v)),
         price |-> IF book_element.price_color # None
                   THEN Str(strip(book_element.price_color.text)) ELSE Str(<<>>),
         rating |-> IF book_element.star_rating # None
                       /\ Len(book_element.star_rating.class) > 1
                    THEN Str(book_element.star_rating.class[2]) ELSE Str(<<>>),
         availability |-> IF book_element.availability # None
                          THEN Str(strip(book_element.availability.text)) ELSE Str(<<>>),
         book_url |-> book_url,
         image_url |-> IF book_element.img # None
                       THEN urljoin(base_url, get(book_element.img.src))
                       ELSE Str(<<>>),
         category |-> _extract_category_from_url(book_url)]

\* scrape_books_from_page, given what get_page_content returned
scrape_books_from_page(soup) ==
    IF soup = None THEN <<>>
    ELSE
    LET book_elements == soup.books
        F[k \in 0..Len(book_elements)] ==
            IF k = 0 THEN <<>>
            ELSE LET book_info == extract_book_info(book_elements[k])
                 IN  IF DOMAIN book_info # {}
                     THEN Append(F[k - 1], book_info) ELSE F[k - 1]
    IN  F[Len(book_elements)]

\* the article elements of the site
BookElement(h3, price_color, star_rating, availability, img) ==
    [h3 |-> h3, price_color |-> price_color, star_rating |-> star_rating,
     availability |-> availability, img |-> img]

\* the reference "x/y/a-b/i.html"
BookHref == RelDir(<< <<"x">>, <<"y">>, <<"a", "-", "b">>, <<"i", ".", "h", "t", "m", "l">> >>)

\* a complete article
B_full ==
    BookElement([a |-> [title |-> Str(<<" ", "T">>), href |-> BookHref]],
                [text |-> <<"5">>],
                [class |-> << <<"s", "t", "a", "r", "-", "r", "a", "t", "i", "n", "g">>, <<"T", "w", "o">> >>],
                [text |-> <<" ", "I", "n", " ", "s", "t", "o", "c", "k", "\n">>],
                [src |-> RelDir(<< <<"m">>, <<"1", ".", "j", "p", "g">> >>)])
\* an article whose anchor has no title attribute
B_notitle == BookElement([a |-> [title |-> None, href |-> BookHref]], None, None, None, None)
\* an article with another title and nothing else
B_bare == BookElement([a |-> [title |-> Str(<<"U">>), href |-> None]], None, None, None, [src |-> None])
\* an article without h3
B_noh3 == BookElement(None, [text |-> <<"5">>], None, None, None)

BookElements == {B_full, B_notitle, B_bare, B_noh3}

BookLists(n) == UNION {[1..k -> BookElements] : k \in 0..n}

\* li.next of a page: none, without anchor, an anchor without href, or an
\* anchor with href
NextLinks ==
    {None, [a |-> None], [a |-> [href |-> None]],
     [a |-> [href |-> RelDir(<<PageFile(2)>>)]]}

\* what get_page_content can return for page n: None after a request
\* error, else the parsed page; the site has no book beyond page MaxPage
Soups(n) ==
    {None} \cup
    [books : IF n <= MaxPage THEN BookLists(MaxElems) ELSE {<<>>}, next : NextLinks]

\* the sites: for each page index, whether the page has a book while
\* get_all_page_urls runs.  The pages with a book are the pages 1..last:
\* the pages after the first page without book are never fetched by
\* get_all_page_urls, and no site has a book beyond page MaxPage
Sites == {[n \in 1..(MaxPage + 1) |-> n <= last] : last \in 0..MaxPage}

\* what get_page_content can return for page n of the site s
SiteSoups(s, n) ==
    {soup \in Soups(n) :
        soup # None => ((soup.books # <<>>) <=> (n \in DOMAIN s /\ s[n]))}

\* variant: the probing starts whatever the first page shows
has_next_always(soup) == soup # None

\* pagination = soup.find('li', class_='next'); if pagination:
\*   next_link = pagination.find('a'); if next_link and ...:
\*     current_url = next_link.get('href'); if current_url:
has_next(soup) ==
    /\ soup.next # None
    /\ soup.next.a # None
    /\ soup.next.a.href # None

\* variant: a page that cannot be fetched counts as a page with books
found_book_or_failed(test_soup) == test_soup = None \/ test_soup.books # <<>>

\* if test_soup and test_soup.find('article', class_='product_pod'):
found_book(test_soup) == test_soup # None /\ test_soup.books # <<>>

\* what a fetch of get_all_page_urls showed, for the history
Shown(soup, first) ==
    IF soup = None THEN "failed"
    ELSE IF first
         THEN (IF soup.next = [a |-> [href |-> RelDir(<<PageFile(2)>>)]]
               THEN "next" ELSE "no next")
    ELSE IF soup.books # <<>> THEN "book" ELSE "no book"

(***************************************************************************)
(* Examples/Book Scraper - AI-Generated/json_to_html.py: the script of the *)
(* generated page.  A list of books is the number of books it has in each  *)
(* category; the filter is the category select (the search box and the     *)
(* rating select keep a sub-list in the same way, and the sort keeps the   *)
(* length).                                                                *)
(***************************************************************************)
booksPerPage == 12

Categories == {"a", "b"}

\* the numbers of books of one category in the data of a page
Counts == {0, 1, booksPerPage, booksPerPage + 1, MaxBooks}

\* filteredBooks.length
length(list) == list["a"] + list["b"]

\* Math.ceil(n / booksPerPage)
ceil(n) == (n + booksPerPage - 1) \div booksPerPage

\* the arguments changePage is called with
PageArgs == (0 - 1)..(ceil(2 * MaxBooks) + 1)

\* booksData.filter(book => ... matchesCategory ...)
filter(data, selectedCategory) ==
    [c \in Categories |->
        IF selectedCategory = "" \/ c = selectedCategory THEN data[c] ELSE 0]

(***************************************************************************)
(* Examples/math_quiz.py                                                   *)
(***************************************************************************)
\* random.randint(a, b)
randint(a, b) == a..b

\* str(n) of an integer
str(n) == IF n < 0 THEN <<"-">> \o DigitsOf(0 - n) ELSE DigitsOf(n)

\* an int of Python
PyInt(n) == [t |-> "int", v |-> n]

\* int(text): the text stripped is an optional sign and digits; anything
\* else is a ValueError
int(text) ==
    LET s == strip(text)
        signed == s # <<>> /\ Head(s) \in {"-", "+"}
        digs == IF signed THEN Tail(s) ELSE s
    IN  IF digs = <<>> \/ \E k \in 1..Len(digs) : digs[k] \notin Digits
        THEN ValueError
        ELSE IF signed /\ Head(s) = "-" THEN PyInt(0 - DigitsVal(digs))
        ELSE PyInt(DigitsVal(digs))

\* the texts typed at the first prompt: an integer from -1 up, with or
\* without a blank, or a text that is not an integer
QuestionCounts ==
    {str(n) : n \in (0 - 1)..MaxQuestions} \cup {<<" ", "2">>, <<"x">>}

(***************************************************************************)
(* State                                                                   *)
(***************************************************************************)
VARIABLES
    pc,           \* the statement the script is at
    spent,        \* history: number of elements matched in the runs before
    browser,      \* "none", "open", "closed"
    closes,       \* number of browser.close() calls
    pages,        \* indices of the pages created and not closed
    page_number,
    elements,     \* the elements matched on the current page
    idx,          \* position of the for loop in elements
    records,      \* the accumulator of scrape_products
    exc,          \* the exception propagating out of the loop, or "none"
    products,     \* what scrape_products returned to the main block
    df,           \* the DataFrame of save_to_csv after drop_duplicates
    files,        \* the files written, by name
    requested,    \* history: the page indices page.goto was called with
    fetched,      \* history: the elements matched on each queried page
    fault,        \* history: the call that failed, and how
    saved,        \* history: the records save_to_csv was called with
    page_urls,    \* Books: the page URLs found by get_all_page_urls
    page_num,     \* Books: the page number get_all_page_urls probes next
    page_i,       \* Books: i, the position of scrape_all_books in page_urls
    all_books,    \* Books: the accumulator of scrape_all_books
    books_data,   \* Books: self.books_data
    books,        \* Books: what scrape_all_books returned
    fetches,      \* history: number of get_page_content calls
    site,         \* history: the pages of the site that have a book
    probed,       \* history: what each fetch of get_all_page_urls showed
    seen,         \* history: for each page of the scraping loop, the
                  \* article elements get_page_content returned, or None
    booksData,    \* page script: the number of books of each category
    filteredBooks,\* page script: the same for the books the filter kept
    currentPage,  \* page script
    called,       \* history: the last function of the page script called
    n_questions,  \* math_quiz
    count_correct,\* math_quiz
    quiz_i,       \* math_quiz: number of iterations of the for loop begun
    n1,           \* math_quiz
    n2,           \* math_quiz
    user_answer,  \* math_quiz
    report,       \* math_quiz: the two numbers of the last line printed
    right         \* history: number of answers equal to the sum asked

luluVars == <<browser, closes, pages, page_number, elements, idx, records,
              exc, products, df, files, requested, fetched, fault, saved>>

booksVars == <<page_urls, page_num, page_i, all_books, books_data, books,
               fetches, seen, site, probed>>

htmlVars == <<booksData, filteredBooks, currentPage, called>>

quizVars == <<n_questions, count_correct, quiz_i, n1, n2, user_answer, report, right>>

vars == <<pc, spent, luluVars, booksVars, htmlVars, quizVars>>

NoFault == [at |-> "none", kind |-> "none", page |-> 0]

Init ==
    /\ pc = "main"
    /\ spent = 0
    /\ browser = "none"
    /\ closes = 0
    /\ pages = {}
    /\ page_number = 0
    /\ elements = <<>>
    /\ idx = 0
    /\ records = <<>>
    /\ exc = "none"
    /\ products = None
    /\ df = None
    /\ files = << >>
    /\ requested = <<>>
    /\ fetched = <<>>
    /\ fault = NoFault
    /\ saved = None
    /\ page_urls = <<>>
    /\ page_num = 0
    /\ page_i = 0
    /\ all_books = <<>>
    /\ books_data = <<>>
    /\ books = None
    /\ fetches = 0
    /\ seen = <<>>
    /\ site = [n \in 1..(MaxPage + 1) |-> FALSE]
    /\ probed = <<>>
    /\ booksData = [c \in Categories |-> 0]
    /\ filteredBooks = [c \in Categories |-> 0]
    /\ currentPage = 0
    /\ called = None
    /\ n_questions = 0
    /\ count_correct = 0
    /\ quiz_i = 0
    /\ n1 = 0
    /\ n2 = 0
    /\ user_answer = 0
    /\ report = None
    /\ right = 0

\* number of elements matched so far in the run
RECURSIVE Total(_)
Total(f) == IF f = <<>> THEN 0 ELSE Len(Head(f)) + Total(Tail(f))

(***************************************************************************)
(* scrape_products                                                         *)
(***************************************************************************)
\* variant: the accumulator of the run before is kept
Launch_keep ==
    /\ pc \in {"main", "exit", "traceback"}
    /\ pc' = "while"
    /\ spent' = spent + Total(fetched)
    /\ records' = records
    /\ browser' = "open"
    /\ page_number' = 1
    /\ closes' = 0
    /\ pages' = {}
    /\ elements' = <<>>
    /\ idx' = 0
    /\ exc' = "none"
    /\ products' = None
    /\ df' = None
    /\ requested' = <<>>
    /\ fetched' = <<>>
    /\ fault' = NoFault
    /\ saved' = None
    /\ UNCHANGED files
    /\ UNCHANGED <<booksVars, htmlVars, quizVars>>

\* the script is run, the first time or again after a run has ended:
\* records = []; browser = p.chromium.launch(); page_number = 1
\* The other locals do not exist yet and the history of the run is
\* empty; the files of the runs before are on the disk.
Launch ==
    /\ pc \in {"main", "exit", "traceback"}
    /\ pc' = "while"
    /\ spent' = spent + Total(fetched)
    /\ records' = <<>>
    /\ browser' = "open"
    /\ page_number' = 1
    /\ closes' = 0
    /\ pages' = {}
    /\ elements' = <<>>
    /\ idx' = 0
    /\ exc' = "none"
    /\ products' = None
    /\ df' = None
    /\ requested' = <<>>
    /\ fetched' = <<>>
    /\ fault' = NoFault
    /\ saved' = None
    /\ UNCHANGED files
    /\ UNCHANGED <<booksVars, htmlVars, quizVars>>

\* variant: the loop stops by itself after two pages
NewPage_capped ==
    /\ pc = "while"
    /\ page_number <= MaxPage
    /\ IF page_number > 2
       THEN pc' = "finally" /\ pages' = pages
       ELSE pc' = "goto" /\ pages' = pages \cup {page_number}
    /\ UNCHANGED <<browser, closes, page_number, elements, idx, records, exc,
                   products, df, files, requested, fetched, fault, saved>>
    /\ UNCHANGED <<spent, booksVars, htmlVars, quizVars>>

\* while True: page = browser.new_page()
\* (the model follows the loop up to the page MaxPage)
NewPage ==
    /\ pc = "while"
    /\ page_number <= MaxPage
    /\ pages' = pages \cup {page_number}
    /\ pc' = "goto"
    /\ UNCHANGED <<browser, closes, page_number, elements, idx, records, exc,
                   products, df, files, requested, fetched, fault, saved>>
    /\ UNCHANGED <<spent, booksVars, htmlVars, quizVars>>

\* page.goto(BASE_URL + page_number, timeout=15000): an exception of goto
\* is not caught inside the loop and leaves it through the finally clause
Goto ==
    /\ pc = "goto"
    /\ requested' = Append(requested, page_number)
    /\ \E outcome \in {"ok", "TimeoutError", "Error"} :
          IF outcome = "ok"
          THEN /\ pc' = "wait"
               /\ UNCHANGED <<exc, fault>>
          ELSE /\ pc' = "finally"
               /\ exc' = outcome
               /\ fault' = [at |-> "goto", kind |-> outcome, page |-> page_number]
    /\ UNCHANGED <<browser, closes, pages, page_number, elements, idx,
                   records, products, df, files, fetched, saved>>
    /\ UNCHANGED <<spent, booksVars, htmlVars, quizVars>>

\* page.wait_for_load_state('domcontentloaded', timeout=10000);
\* except TimeoutError: page.close(); break
WaitForLoadState ==
    /\ pc = "wait"
    /\ \E outcome \in {"ok", "TimeoutError"} :
          IF outcome = "ok"
          THEN /\ pc' = "query"
               /\ UNCHANGED <<pages, fault>>
          ELSE /\ pc' = "finally"
               /\ pages' = pages \ {page_number}
               /\ fault' = [at |-> "wait", kind |-> outcome, page |-> page_number]
    /\ UNCHANGED <<browser, closes, page_number, elements, idx, records, exc,
                   products, df, files, requested, fetched, saved>>
    /\ UNCHANGED <<spent, booksVars, htmlVars, quizVars>>

\* variant: an empty page does not end the loop
not_elements_never(els) == FALSE

\* if not elements:
not_elements(els) == els = <<>>

\* variant: the loop ends when no record can be extracted from the
\* elements of the page
QuerySelectorAll_records ==
    /\ pc = "query"
    /\ \/ \E els \in ElementLists(MaxElems) :
             /\ spent + Total(fetched) + Len(els) <= MaxTotal
             /\ elements' = els
             /\ fetched' = Append(fetched, els)
             /\ IF \A j \in 1..Len(els) : Extracted[els[j], page_number] = None
                THEN /\ pc' = "finally"
                     /\ pages' = pages \ {page_number}
                     /\ idx' = idx
                ELSE /\ pc' = "for"
                     /\ idx' = 1
                     /\ pages' = pages
             /\ UNCHANGED <<exc, fault>>
       \/ /\ pc' = "finally"
          /\ exc' = "Error"
          /\ fault' = [at |-> "query", kind |-> "Error", page |-> page_number]
          /\ UNCHANGED <<elements, fetched, idx, pages>>
    /\ UNCHANGED <<browser, closes, page_number, records, products, df,
                   files, requested, saved>>
    /\ UNCHANGED <<spent, booksVars, htmlVars, quizVars>>

\* elements = page.query_selector_all(css_selector);
\* if not elements: page.close(); break
\* (an exception of query_selector_all leaves the loop like one of goto)
QuerySelectorAll ==
    /\ pc = "query"
    /\ \/ \E els \in ElementLists(MaxElems) :
             /\ spent + Total(fetched) + Len(els) <= MaxTotal
             /\ elements' = els
             /\ fetched' = Append(fetched, els)
             /\ IF not_elements(els)
                THEN /\ pc' = "finally"
                     /\ pages' = pages \ {page_number}
                     /\ idx' = idx
                ELSE /\ pc' = "for"
                     /\ idx' = 1
                     /\ pages' = pages
             /\ UNCHANGED <<exc, fault>>
       \/ /\ pc' = "finally"
          /\ exc' = "Error"
          /\ fault' = [at |-> "query", kind |-> "Error", page |-> page_number]
          /\ UNCHANGED <<elements, fetched, idx, pages>>
    /\ UNCHANGED <<browser, closes, page_number, records, products, df,
                   files, requested, saved>>
    /\ UNCHANGED <<spent, booksVars, htmlVars, quizVars>>

\* variant: the product is put in front of the list
append_front(list, product) == <<product>> \o list

\* records.append(product)
append(list, product) == Append(list, product)

\* one iteration of: for element in elements:
\*     product = extract_product_data(element, page.url)
\*     if product: records.append(product)
ExtractElement ==
    /\ pc = "for"
    /\ idx <= Len(elements)
    /\ LET product == Extracted[elements[idx], page_number]
       IN  IF product = Raised
           THEN /\ pc' = "finally"
                /\ exc' = "Error"
                /\ fault' = [at |-> "extract", kind |-> "Error", page |-> page_number]
                /\ UNCHANGED <<records, idx>>
           ELSE /\ records' = IF product # None /\ DOMAIN product # {}
                              THEN append(records, product)
                              ELSE records
                /\ idx' = idx + 1
                /\ UNCHANGED <<pc, exc, fault>>
    /\ UNCHANGED <<browser, closes, pages, page_number, elements, products,
                   df, files, requested, fetched, saved>>
    /\ UNCHANGED <<spent, booksVars, htmlVars, quizVars>>

\* variant: the page index is advanced by two
NextPage_skip ==
    /\ pc = "for"
    /\ idx > Len(elements)
    /\ pages' = pages \ {page_number}
    /\ page_number' = page_number + 2
    /\ pc' = "while"
    /\ UNCHANGED <<browser, closes, elements, idx, records, exc, products, df,
                   files, requested, fetched, fault, saved>>
    /\ UNCHANGED <<spent, booksVars, htmlVars, quizVars>>

\* after the for loop: page.close(); page_number += 1
NextPage ==
    /\ pc = "for"
    /\ idx > Len(elements)
    /\ pages' = pages \ {page_number}
    /\ page_number' = page_number + 1
    /\ pc' = "while"
    /\ UNCHANGED <<browser, closes, elements, idx, records, exc, products, df,
                   files, requested, fetched, fault, saved>>
    /\ UNCHANGED <<spent, booksVars, htmlVars, quizVars>>

\* variant: the browser is closed on the return path only
Finally_onreturn ==
    /\ pc = "finally"
    /\ browser' = IF exc = "none" THEN "closed" ELSE browser
    /\ closes' = IF exc = "none" THEN closes + 1 ELSE closes
    /\ pages' = IF exc = "none" THEN {} ELSE pages
    /\ IF exc = "none"
       THEN /\ pc' = "save"
            /\ products' = List(records)
       ELSE /\ pc' = "traceback"
            /\ products' = products
    /\ UNCHANGED <<page_number, elements, idx, records, exc, df, files,
                   requested, fetched, fault, saved>>
    /\ UNCHANGED <<spent, booksVars, htmlVars, quizVars>>

\* finally: browser.close(); then return records, or the exception goes on
\* to the main block, which has no handler
Finally ==
    /\ pc = "finally"
    /\ browser' = "closed"
    /\ closes' = closes + 1
    /\ pages' = {}
    /\ IF exc = "none"
       THEN /\ pc' = "save"
            /\ products' = List(records)
       ELSE /\ pc' = "traceback"
            /\ products' = products
    /\ UNCHANGED <<page_number, elements, idx, records, exc, df, files,
                   requested, fetched, fault, saved>>
    /\ UNCHANGED <<spent, booksVars, htmlVars, quizVars>>

(***************************************************************************)
(* save_to_csv(products, OUTPUT_FILE), called by the main block            *)
(***************************************************************************)
save_to_csv ==
    /\ pc = "save"
    /\ saved' = products
    /\ IF products.v # <<>>
       THEN /\ df' = List(drop_duplicates(DataFrame(products.v)))
            /\ files' = (OUTPUT_FILE :> to_csv(df'.v, Columns(products.v))) @@ files
       ELSE UNCHANGED <<df, files>>
    /\ pc' = "exit"
    /\ UNCHANGED <<browser, closes, pages, page_number, elements, idx,
                   records, exc, products, requested, fetched, fault>>
    /\ UNCHANGED <<spent, booksVars, htmlVars, quizVars>>

(***************************************************************************)
(* BooksToScrapeScraper.scrape_all_books                                   *)
(***************************************************************************)
\* the number of article elements the scraping loop has been given
SeenTotal == Total([k \in 1..Len(seen) |-> IF seen[k] = None THEN <<>> ELSE seen[k].books])

\* scrape_all_books is called, the first time or again on the same
\* instance after the calls of the two save methods, and calls
\* get_all_page_urls:
\* page_urls = [self.base_url + "catalogue/page-1.html"]
\* self.books_data is what the call before left.
GetAllPageUrls ==
    /\ pc \in {"main", "json_saved"}
    /\ spent' = spent + SeenTotal
    /\ page_urls' = <<PageUrl(1)>>
    /\ pc' = "first_page"
    /\ page_num' = 0
    /\ page_i' = 0
    /\ all_books' = <<>>
    /\ books' = None
    /\ fetches' = 0
    /\ seen' = <<>>
    /\ site' \in Sites
    /\ probed' = <<>>
    /\ UNCHANGED books_data
    /\ UNCHANGED <<luluVars, htmlVars, quizVars>>

\* soup = self.get_page_content(page_urls[0]); the page list is returned
\* as it is unless the page has a li.next with an anchor with a href
FirstPage ==
    /\ pc = "first_page"
    /\ fetches' = fetches + 1
    /\ \E soup \in SiteSoups(site, 1) :
          /\ probed' = <<Shown(soup, TRUE)>>
          /\ IF soup # None /\ has_next(soup)
             THEN /\ page_num' = 2
                  /\ pc' = "probe"
                  /\ UNCHANGED <<page_i, all_books>>
             ELSE /\ pc' = "return_urls"
                  /\ UNCHANGED <<page_num, page_i, all_books>>
    /\ UNCHANGED <<page_urls, books_data, books, seen, site>>
    /\ UNCHANGED <<spent, luluVars, htmlVars, quizVars>>

\* variant: the probing goes on two pages further
Probe_skip ==
    /\ pc = "probe"
    /\ fetches' = fetches + 1
    /\ \E test_soup \in SiteSoups(site, page_num) :
          /\ probed' = Append(probed, Shown(test_soup, FALSE))
          /\ IF found_book(test_soup)
             THEN /\ page_urls' = Append(page_urls, PageUrl(page_num))
                  /\ page_num' = page_num + 2
                  /\ UNCHANGED <<pc, page_i, all_books>>
             ELSE /\ pc' = "return_urls"
                  /\ UNCHANGED <<page_urls, page_num, page_i, all_books>>
    /\ UNCHANGED <<books_data, books, seen, site>>
    /\ UNCHANGED <<spent, luluVars, htmlVars, quizVars>>

\* one iteration of the while loop of get_all_page_urls, up to its break
Probe ==
    /\ pc = "probe"
    /\ fetches' = fetches + 1
    /\ \E test_soup \in SiteSoups(site, page_num) :
          /\ probed' = Append(probed, Shown(test_soup, FALSE))
          /\ IF found_book(test_soup)
             THEN /\ page_urls' = Append(page_urls, PageUrl(page_num))
                  /\ page_num' = page_num + 1
                  /\ UNCHANGED <<pc, page_i, all_books>>
             ELSE /\ pc' = "return_urls"
                  /\ UNCHANGED <<page_urls, page_num, page_i, all_books>>
    /\ UNCHANGED <<books_data, books, seen, site>>
    /\ UNCHANGED <<spent, luluVars, htmlVars, quizVars>>

\* get_all_page_urls returns page_urls and scrape_all_books goes on with
\* all_books = [] and the loop over page_urls.  From here on the site can
\* change: its history ends.
ReturnPageUrls ==
    /\ pc = "return_urls"
    /\ pc' = "scrape"
    /\ page_i' = 1
    /\ all_books' = <<>>
    /\ site' = [n \in 1..(MaxPage + 1) |-> FALSE]
    /\ UNCHANGED <<page_urls, page_num, books_data, books, fetches, seen, probed>>
    /\ UNCHANGED <<spent, luluVars, htmlVars, quizVars>>

\* variant: a page that cannot be fetched ends the loop
ScrapePage_stop ==
    /\ pc = "scrape"
    /\ page_i <= Len(page_urls)
    /\ fetches' = fetches + 1
    /\ \E soup \in Soups(PageIndex(page_urls[page_i])) :
          /\ spent + SeenTotal + (IF soup = None THEN 0 ELSE Len(soup.books)) <= MaxTotal
          /\ seen' = Append(seen, IF soup = None THEN None ELSE [books |-> soup.books])
          /\ all_books' = all_books \o scrape_books_from_page(soup)
          /\ page_i' = IF soup = None THEN Len(page_urls) + 1 ELSE page_i + 1
    /\ UNCHANGED <<pc, page_urls, page_num, books_data, books, site, probed>>
    /\ UNCHANGED <<spent, luluVars, htmlVars, quizVars>>

\* one iteration of: for i, page_url in enumerate(page_urls, 1):
\*     books = self.scrape_books_from_page(page_url)
\*     all_books.extend(books)
ScrapePage ==
    /\ pc = "scrape"
    /\ page_i <= Len(page_urls)
    /\ fetches' = fetches + 1
    /\ \E soup \in Soups(PageIndex(page_urls[page_i])) :
          /\ spent + SeenTotal + (IF soup = None THEN 0 ELSE Len(soup.books)) <= MaxTotal
          /\ seen' = Append(seen, IF soup = None THEN None ELSE [books |-> soup.books])
          /\ all_books' = all_books \o scrape_books_from_page(soup)
    /\ page_i' = page_i + 1
    /\ UNCHANGED <<pc, page_urls, page_num, books_data, books, site, probed>>
    /\ UNCHANGED <<spent, luluVars, htmlVars, quizVars>>

\* after the loop: self.books_data = all_books; return all_books
ReturnAllBooks ==
    /\ pc = "scrape"
    /\ page_i > Len(page_urls)
    /\ books_data' = all_books
    /\ books' = List(all_books)
    /\ pc' = "books_done"
    /\ UNCHANGED <<page_urls, page_num, page_i, all_books, fetches, seen,
                   site, probed>>
    /\ UNCHANGED <<spent, luluVars, htmlVars, quizVars>>

(***************************************************************************)
(* BooksToScrapeScraper.save_to_csv and save_to_json.  The main block      *)
(* calls them, in this order, when scrape_all_books returned books; they   *)
(* are methods any caller can call, so the model calls them after every    *)
(* scrape_all_books.                                                       *)
(***************************************************************************)
fieldnames == <<"title", "price", "rating", "availability", "book_url", "image_url", "category">>

\* csv.DictWriter: the header and, for each book, its values in the order
\* of fieldnames
DictWriter(data) ==
    [header |-> fieldnames,
     rows |-> [i \in 1..Len(data) |-> [k \in 1..Len(fieldnames) |-> data[i][fieldnames[k]]]]]

\* json.dump(self.books_data, jsonfile): the list of objects
dump(data) == [t |-> "json", v |-> data]

\* variant: the header is written even when there is no book
Books_save_to_csv_always ==
    /\ pc = "books_done"
    /\ files' = ("books_data.csv" :> DictWriter(books_data)) @@ files
    /\ pc' = "csv_saved"
    /\ UNCHANGED <<browser, closes, pages, page_number, elements, idx, records,
                   exc, products, df, requested, fetched, fault, saved>>
    /\ UNCHANGED <<spent, booksVars, htmlVars, quizVars>>

\* save_to_csv("books_data.csv"): if not self.books_data: warn, return;
\* else the file is written (the disk is writable, as for the Lulu file)
Books_save_to_csv ==
    /\ pc = "books_done"
    /\ IF books_data # <<>>
       THEN files' = ("books_data.csv" :> DictWriter(books_data)) @@ files
       ELSE files' = files
    /\ pc' = "csv_saved"
    /\ UNCHANGED <<browser, closes, pages, page_number, elements, idx, records,
                   exc, products, df, requested, fetched, fault, saved>>
    /\ UNCHANGED <<spent, booksVars, htmlVars, quizVars>>

\* save_to_json("books_data.json")
save_to_json ==
    /\ pc = "csv_saved"
    /\ IF books_data # <<>>
       THEN files' = ("books_data.json" :> dump(books_data)) @@ files
       ELSE files' = files
    /\ pc' = "json_saved"
    /\ UNCHANGED <<browser, closes, pages, page_number, elements, idx, records,
                   exc, products, df, requested, fetched, fault, saved>>
    /\ UNCHANGED <<spent, booksVars, htmlVars, quizVars>>

(***************************************************************************)
(* The script of the page generated by json_to_html.generate_html          *)
(***************************************************************************)
\* the page is loaded: const booksData = ...;
\* let filteredBooks = [...booksData]; let currentPage = 1
LoadPage ==
    /\ pc = "main"
    /\ booksData' \in [Categories -> Counts]
    /\ filteredBooks' = booksData'
    /\ currentPage' = 1
    /\ called' = None
    /\ pc' = "page"
    /\ UNCHANGED <<spent, luluVars, booksVars, quizVars>>

\* filterBooks(), the listener of the search box and of the selects
filterBooks ==
    /\ pc = "page"
    /\ \E selectedCategory \in {""} \cup Categories :
          /\ filteredBooks' = filter(booksData, selectedCategory)
          /\ called' = [f |-> "filterBooks", arg |-> selectedCategory]
    /\ currentPage' = 1
    /\ UNCHANGED <<pc, spent, booksData, luluVars, booksVars, quizVars>>

\* variant: only the lower limit of the page is tested
changePage_unchecked ==
    /\ pc = "page"
    /\ \E page \in PageArgs :
          /\ called' = [f |-> "changePage", arg |-> page]
          /\ currentPage' = IF page >= 1 THEN page ELSE currentPage
    /\ UNCHANGED <<pc, spent, booksData, filteredBooks, luluVars, booksVars, quizVars>>

\* changePage(page)
changePage ==
    /\ pc = "page"
    /\ \E page \in PageArgs :
          LET totalPages == ceil(length(filteredBooks))
          IN  /\ called' = [f |-> "changePage", arg |-> page]
              /\ currentPage' = IF page >= 1 /\ page <= totalPages
                                THEN page ELSE currentPage
    /\ UNCHANGED <<pc, spent, booksData, filteredBooks, luluVars, booksVars, quizVars>>

(***************************************************************************)
(* math_quiz.py                                                            *)
(***************************************************************************)
\* the texts typed at the prompt after a question: three integers, and a
\* text that is not an integer
Answers(a, b) == {str(a + b), str(a + b + 1), str(a * b), <<"x">>}

\* int(input(f"{n1} + {n2} = ? ")) for each text typed, computed once
Typed ==
    [a \in randint(1, 9), b \in randint(1, 9) |->
        {int(typed) : typed \in Answers(a, b)}]

\* variant: the product is taken for the sum
correct_answer_product(a, b) == a * b

\* correct_answer = n1 + n2
correct_answer(a, b) == a + b

\* n_questions = int(input(...)); count_correct = 0
\* (int raises ValueError on a text that is not an integer)
StartQuiz ==
    /\ pc = "main"
    /\ \E typed \in {int(text) : text \in QuestionCounts} :
          IF typed = ValueError
          THEN pc' = "quiz_traceback" /\ UNCHANGED n_questions
          ELSE pc' = "quiz" /\ n_questions' = typed.v
    /\ count_correct' = 0
    /\ UNCHANGED <<quiz_i, n1, n2, user_answer, report, right>>
    /\ UNCHANGED <<spent, luluVars, booksVars, htmlVars>>

\* one iteration of: for i in range(n_questions):
Question ==
    /\ pc = "quiz"
    /\ quiz_i < n_questions
    /\ quiz_i' = quiz_i + 1
    /\ n1' \in randint(1, 9)
    /\ n2' \in randint(1, 9)
    /\ \E answer \in Typed[n1', n2'] :
          IF answer = ValueError
          THEN /\ pc' = "quiz_traceback"
               /\ UNCHANGED <<user_answer, count_correct, right>>
          ELSE /\ user_answer' = answer.v
               /\ count_correct' = IF user_answer' = correct_answer(n1', n2')
                                   THEN count_correct + 1 ELSE count_correct
               /\ right' = IF user_answer' = n1' + n2' THEN right + 1 ELSE right
               /\ pc' = pc
    /\ UNCHANGED <<n_questions, report>>
    /\ UNCHANGED <<spent, luluVars, booksVars, htmlVars>>

\* after the loop:
\* print(f"You answered {count_correct} out of {n_questions} ...")
Report ==
    /\ pc = "quiz"
    /\ quiz_i >= n_questions
    /\ report' = List(<<count_correct, n_questions>>)
    /\ pc' = "quiz_done"
    /\ UNCHANGED <<n_questions, count_correct, quiz_i, n1, n2, user_answer, right>>
    /\ UNCHANGED <<spent, luluVars, booksVars, htmlVars>>

Next ==
    \/ Launch
    \/ NewPage
    \/ Goto
    \/ WaitForLoadState
    \/ QuerySelectorAll
    \/ ExtractElement
    \/ NextPage
    \/ Finally
    \/ save_to_csv
    \/ GetAllPageUrls
    \/ FirstPage
    \/ Probe
    \/ ReturnPageUrls
    \/ ScrapePage
    \/ ReturnAllBooks
    \/ Books_save_to_csv
    \/ save_to_json
    \/ LoadPage
    \/ filterBooks
    \/ changePage
    \/ StartQuiz
    \/ Question
    \/ Report

Spec == Init /\ [][Next]_vars

\* the script is one sequential process that keeps running: a step that
\* can be taken is taken
LiveSpec == Spec /\ WF_vars(Next)

TypeOK ==
    /\ pc \in {"main", "while", "goto", "wait", "query", "for", "finally",
               "save", "traceback", "exit",
               "first_page", "probe", "return_urls", "scrape", "books_done",
               "csv_saved", "json_saved",
               "page", "quiz", "quiz_done", "quiz_traceback"}
    /\ browser \in {"none", "open", "closed"}
    /\ spent \in 0..MaxTotal
    /\ page_number \in 0..(MaxPage + 1)

(***************************************************************************)
(* Properties                                                              *)
(***************************************************************************)
Terminated == pc \in {"exit", "traceback"}

Last(s) == s[Len(s)]

\* the number of elements of page p the for loop has handled
Done(p) == IF pc = "for" /\ p = Len(fetched) THEN idx - 1 ELSE Len(fetched[p])

\* the elements the for loop has handled, in the order it handled them
Handled ==
    LET F[p \in 0..Len(fetched)] ==
            IF p = 0 THEN <<>>
            ELSE F[p - 1] \o [j \in 1..Done(p) |-> [page |-> p, pos |-> j, el |-> fetched[p][j]]]
    IN  F[Len(fetched)]

\* the records of a list of handled elements, in its order
RecordsOf(hs) ==
    LET F[k \in 0..Len(hs)] ==
            IF k = 0 THEN <<>>
            ELSE LET r == extract_product_data(hs[k].el, BASE_URL(hs[k].page))
                 IN  IF r = None THEN F[k - 1] ELSE Append(F[k - 1], r)
    IN  F[Len(hs)]

\* C1: when pages 1..N matched elements and page N+1 matched none, the
\* driver has requested exactly the pages 1..N+1 and has left the loop.
C1_StopsAfterEmptyPage ==
    (fetched # <<>> /\ Last(fetched) = <<>>) =>
        /\ \A p \in 1..(Len(fetched) - 1) : fetched[p] # <<>>
        /\ requested = [i \in 1..Len(fetched) |-> i]
        /\ pc \in {"finally", "save", "exit"}
        /\ exc = "none"

C1_Witness ==
    /\ pc = "exit"
    /\ Len(fetched) = 3
    /\ fetched[1] # <<>> /\ fetched[2] # <<>> /\ fetched[3] = <<>>
    /\ requested = <<1, 2, 3>>

\* C2: when page 1 was fetched with elements and the fetch of page 2
\* raised a timeout, the run ends with pages 1 and 2 requested and
\* scrape_products returns exactly the records of page 1.
C2_TimeoutOnSecondPage ==
    (/\ Terminated
     /\ fault.kind = "TimeoutError" /\ fault.page = 2
     /\ Len(fetched) = 1 /\ fetched[1] # <<>>) =>
        /\ requested = <<1, 2>>
        /\ products = List(RecordsOf(Handled))

\* C3: a run that ends on a fetch fault of page.goto or of the load-state
\* wait has called save_to_csv with all the records accumulated.
C3_FaultStillSaves ==
    (Terminated /\ fault.at \in {"goto", "wait"}) => saved = List(records)

\* C4: the page indices requested are 1, 2, ..., k, and k >= 1 once the
\* run has ended.
C4_DenseIndices ==
    /\ requested = [i \in 1..Len(requested) |-> i]
    /\ Terminated => Len(requested) >= 1

C4_Witness == Terminated /\ requested = <<1, 2, 3>>

\* the article elements the scraping loop of the Books scraper was given,
\* in page order and, within a page, in element order
BooksHandled ==
    LET F[p \in 0..Len(seen)] ==
            IF p = 0 THEN <<>>
            ELSE IF seen[p] = None THEN F[p - 1]
            ELSE F[p - 1] \o [j \in 1..Len(seen[p].books) |->
                                 [page |-> p, pos |-> j, el |-> seen[p].books[j]]]
    IN  F[Len(seen)]

\* h comes before g: from a lower page, or earlier on the same page
Before(h, g) == h.page < g.page \/ (h.page = g.page /\ h.pos < g.pos)

\* C5: the list a driver accumulates and returns is made of the records
\* extracted from the elements of the visited pages, one per element that
\* gives a record, in increasing page order and, within a page, in the
\* order of the elements.
C5_RecordsInPageOrder ==
    LET from == SelectSeq(Handled,
                    LAMBDA h : extract_product_data(h.el, BASE_URL(h.page)) # None)
        bfrom == SelectSeq(BooksHandled,
                    LAMBDA h : DOMAIN extract_book_info(h.el) # {})
    IN  /\ Len(records) = Len(from)
        /\ \A k \in 1..Len(from) :
              records[k] = extract_product_data(from[k].el, BASE_URL(from[k].page))
        /\ \A k, l \in 1..Len(from) : k < l => Before(from[k], from[l])
        /\ products # None => products = List(records)
        /\ Len(all_books) = Len(bfrom)
        /\ \A k \in 1..Len(bfrom) : all_books[k] = extract_book_info(bfrom[k].el)
        /\ \A k, l \in 1..Len(bfrom) : k < l => Before(bfrom[k], bfrom[l])
        /\ \A k \in 1..Len(seen) : page_urls[k] = PageUrl(k)
        /\ books # None => books = List(all_books) /\ books_data = all_books

C5_Witness ==
    /\ pc = "exit"
    /\ fetched = << <<E_noname, E_noprice>>, <<E_full>>, <<>> >>
    /\ Len(products.v) = 2
    /\ products.v[1]["name"] = Str(<<"B">>)
    /\ products.v[2]["name"] = Str(<<"A">>)

C5_WitnessBooks ==
    /\ pc = "books_done"
    /\ Len(seen) = 2
    /\ seen[1] = [books |-> <<B_noh3, B_bare>>]
    /\ seen[2] = [books |-> <<B_full>>]
    /\ Len(books.v) = 2
    /\ books.v[1].title = Str(<<"U">>)
    /\ books.v[2].title = Str(<<"T">>)
    /\ books.v[2].category = Str(<<"A", " ", "B">>)
    /\ books.v[2].rating = Str(<<"T", "w", "o">>)
    /\ books.v[2].availability = Str(<<"I", "n", " ", "s", "t", "o", "c", "k">>)
    /\ books.v[1].book_url = base_url
    /\ books.v[1].image_url = base_url
    /\ books.v[1].category = Str(<<>>)

\* C6: an element without name anchor gives no record and appends
\* nothing, and every other element that is extracted without a fault
\* adds its record: the accumulator has one record per handled element
\* with a name anchor and no fault, with that element's name, in order.
C6_NamelessElementSkipped ==
    LET named == SelectSeq(Handled, LAMBDA h : h.el.a # None /\ h.el.raises = "none")
    IN  /\ \A k \in 1..Len(Handled) :
              Handled[k].el.a = None =>
                  extract_product_data(Handled[k].el, BASE_URL(Handled[k].page)) = None
        /\ Len(records) = Len(named)
        /\ \A k \in 1..Len(named) : records[k]["name"] = Str(strip(named[k].el.a.text))

C6_Witness ==
    /\ pc = "while"
    /\ fetched = << <<E_noname, E_full>> >>
    /\ Len(records) = 1
    /\ records[1]["name"] = Str(<<"A">>)

\* C7: the element just handled has a name anchor, raises nothing, and
\* has no price span or a price text that is not a number: its record was
\* appended, the record's price is absent, and its name, link and
\* image_url are those of the same element with a valid price.
C7_PriceAbsent ==
    (pc = "for" /\ idx > 1) =>
        LET e == elements[idx - 1]
            valid == extract_product_data([e EXCEPT !.price = GoodPrice], BASE_URL(page_number))
        IN  (/\ e.a # None
             /\ e.raises = "none"
             /\ \/ e.price = None
                \/ float(replace_comma(strip(e.price.text))) = ValueError) =>
                /\ records # <<>>
                /\ \/ "price" \notin DOMAIN Last(records)
                   \/ Last(records)["price"] = None
                /\ valid["price"] = Float(1299, 0)
                /\ Last(records)["name"] = valid["name"]
                /\ Last(records)["link"] = valid["link"]
                /\ Last(records)["image_url"] = valid["image_url"]

C7_Witness ==
    /\ pc = "for" /\ idx = 3
    /\ elements = <<E_noprice, E_again>>
    /\ Len(records) = 2
    /\ "price" \notin DOMAIN records[1]
    /\ records[2]["price"] = None

\* C8: a fault while one element is extracted never ends the run: no
\* exception leaves extract_product_data, and a page with a faulting
\* element is either still in its for loop or the driver has moved on to
\* the next page index.
C8_ElementFaultContained ==
    /\ fault.at # "extract"
    /\ pc = "for" => exc = "none"
    /\ \A p \in 1..Len(fetched) :
          (\E j \in 1..Len(fetched[p]) : fetched[p][j].raises # "none") =>
              \/ pc = "for" /\ page_number = p
              \/ page_number > p

C8_Witness ==
    /\ pc = "goto" /\ page_number = 2
    /\ fetched = << <<E_raises, E_full>> >>
    /\ Len(records) = 1

\* the index of the first row of d with the key k
First(d, k) == CHOOSE j \in 1..Len(d) : Key(d[j]) = k /\ \A i \in 1..(j - 1) : Key(d[i]) # k

\* C9: the de-duplicated frame has exactly one row per distinct
\* (name, link) of the input, that row is the first one of the input with
\* the pair, and the rows are in the order of these first occurrences.
C9_FirstOccurrenceKept ==
    (pc = "exit" /\ df # None) =>
        LET input == DataFrame(saved.v)
            out == df.v
        IN  /\ {Key(out[i]) : i \in 1..Len(out)} = {Key(input[j]) : j \in 1..Len(input)}
            /\ \A i, j \in 1..Len(out) : i # j => Key(out[i]) # Key(out[j])
            /\ \A i \in 1..Len(out) : out[i] = input[First(input, Key(out[i]))]
            /\ \A i, j \in 1..Len(out) :
                  i < j => First(input, Key(out[i])) < First(input, Key(out[j]))

C9_Witness ==
    /\ pc = "exit" /\ df # None
    /\ Len(saved.v) = 3 /\ Len(df.v) = 2
    /\ Key(saved.v[1]) = Key(saved.v[3])
    /\ saved.v[1] # saved.v[3]
    /\ Key(saved.v[2]) # Key(saved.v[1])

\* C10: de-duplicating the de-duplicated frame again changes nothing.
C10_DedupIdempotent ==
    (pc = "exit" /\ df # None) => drop_duplicates(df.v) = df.v

C10_Witness ==
    /\ pc = "exit" /\ df # None
    /\ Len(saved.v) = 3 /\ Len(df.v) = 1

\* the loop of scrape_products has been left
LoopLeft == pc \in {"finally", "save", "exit", "traceback"}

\* C11: at most one page is open at any point, the page of index N is
\* closed before the page of index N+1 is created, and it is closed
\* before the loop is left, on every path.
C11_PageClosedBeforeNext ==
    /\ Cardinality(pages) <= 1
    /\ pc = "while" => pages = {}
    /\ LoopLeft => pages = {}

\* the element the for loop handled last gave a record (the last one)
JustExtracted ==
    /\ pc = "for" /\ idx > 1
    /\ elements[idx - 1].a # None
    /\ elements[idx - 1].raises = "none"
    /\ records # <<>>

\* a field of a record holds no value
Absent(r, field) == field \notin DOMAIN r \/ r[field] = None

\* a raw attribute value is a relative reference
IsRelative(ref) == ref # None /\ ref.t \in {"rel", "reldir"}

\* C12: when the name anchor has no href the record's link is absent, and
\* when the element has no img, or the img has no src, its image_url is
\* absent.
C12_MissingAttributeAbsent ==
    JustExtracted =>
        LET e == elements[idx - 1]
            r == Last(records)
        IN  /\ e.a.href = None => Absent(r, "link")
            /\ (e.img = None \/ e.img.src = None) => Absent(r, "image_url")

\* C13: when the raw href or the raw src is a relative reference, the
\* field of the record is an absolute URL on the host of the page.
C13_ReferencesResolved ==
    JustExtracted =>
        LET e == elements[idx - 1]
            r == Last(records)
        IN  /\ IsRelative(e.a.href) =>
                  r["link"].t = "url" /\ r["link"].host = BASE_URL(page_number).host
            /\ (e.img # None /\ IsRelative(e.img.src)) =>
                  r["image_url"].t = "url" /\ r["image_url"].host = BASE_URL(page_number).host

\* the cell of row i of a written file in the column col; None when the
\* file has no such column
Cell(csv, i, col) ==
    IF \E k \in 1..Len(csv.header) : csv.header[k] = col
    THEN csv.rows[i][CHOOSE k \in 1..Len(csv.header) : csv.header[k] = col]
    ELSE None

\* the run ended by exhaustion, every matched element has a name anchor
\* and raises nothing, and the (name, link) pairs of the records differ
CleanRun ==
    /\ pc = "exit" /\ fault = NoFault
    /\ \A k \in 1..Len(Handled) :
          Handled[k].el.a # None /\ Handled[k].el.raises = "none"
    /\ \A k, l \in 1..Len(records) :
          k # l => <<records[k]["name"], records[k]["link"]>>
                       # <<records[l]["name"], records[l]["link"]>>

\* C14: after a run over N non-empty pages and an empty page in which
\* every element has a name and the (name, link) pairs are distinct, the
\* file holds one row per element, in order; the row of an element priced
\* "1,299.00" holds the number 1299.00, the row of an element without
\* price span holds an empty price.
C14_EndToEnd ==
    (CleanRun /\ Handled # <<>>) =>
        /\ OUTPUT_FILE \in DOMAIN files
        /\ LET csv == files[OUTPUT_FILE]
           IN  /\ Len(csv.rows) = Len(Handled)
               /\ \A k \in 1..Len(Handled) :
                     LET e == Handled[k].el
                     IN  /\ Cell(csv, k, "name") = Str(strip(e.a.text))
                         /\ e.price = GoodPrice =>
                               /\ Cell(csv, k, "price") # None
                               /\ float(Cell(csv, k, "price").v)
                                      = float(<<"1", "2", "9", "9", ".", "0", "0">>)
                         /\ e.price = None =>
                               Cell(csv, k, "price") \in {None, Str(<<>>)}

C14_Witness ==
    /\ CleanRun
    /\ fetched = << <<E_full, E_noprice>>, <<>> >>
    /\ Len(files[OUTPUT_FILE].rows) = 2
    /\ Cell(files[OUTPUT_FILE], 1, "price") = Str(<<"1", "2", "9", "9", ".", "0">>)
    /\ Cell(files[OUTPUT_FILE], 2, "price") = Str(<<>>)

\* the records of the pages the scraping loop has fetched, page by page
BooksOfSeen ==
    LET F[k \in 0..Len(seen)] ==
            IF k = 0 THEN <<>> ELSE F[k - 1] \o scrape_books_from_page(seen[k])
    IN  F[Len(seen)]

WithAnchor == SelectSeq(BooksHandled, LAMBDA h : h.el.h3 # None /\ h.el.h3.a # None)

C16_FreshPerRun ==
    /\ (pc = "while" /\ requested = <<>>) => records = <<>>
    /\ pc \in {"save", "exit"} => products = List(RecordsOf(Handled))
    /\ pc = "exit" => saved = List(RecordsOf(Handled))
    /\ pc = "books_done" =>
          /\ books_data = BooksOfSeen
          /\ books = List(BooksOfSeen)

\* a second run of the Lulu scraper, after a run that wrote a file, is
\* about to save the one record of its own
C16_Witness ==
    /\ pc = "save"
    /\ spent = 1
    /\ OUTPUT_FILE \in DOMAIN files
    /\ Len(files[OUTPUT_FILE].rows) = 1
    /\ Cell(files[OUTPUT_FILE], 1, "name") = Str(<<"A">>)
    /\ fetched = << <<E_noprice>>, <<>> >>
    /\ products = List(<<extract_product_data(E_noprice, BASE_URL(1))>>)

\* a second call of scrape_all_books has replaced the record of the
\* first call
C16_WitnessBooks ==
    /\ pc = "books_done"
    /\ spent = 1
    /\ seen = <<[books |-> <<B_bare>>]>>
    /\ books_data = <<extract_book_info(B_bare)>>

\* scrape_products is running: the browser has been launched and the
\* finally clause has not run
InScrapeProducts == pc \in {"while", "goto", "wait", "query", "for", "finally"}

\* C18: the browser launched by scrape_products is open while the
\* function runs and has been closed exactly once when the function has
\* been left, by return or by an exception of the pagination loop.
C18_BrowserClosedOnce ==
    /\ InScrapeProducts => browser = "open" /\ closes = 0
    /\ pc \in {"save", "exit", "traceback"} => browser = "closed" /\ closes = 1

C18_Witness ==
    /\ pc = "traceback"
    /\ fault.at = "query" /\ exc = "Error"
    /\ browser = "closed" /\ closes = 1

C18_WitnessTimeout ==
    /\ pc = "save"
    /\ fault.at = "wait" /\ fault.kind = "TimeoutError"
    /\ browser = "closed" /\ closes = 1

\* the while loop of scrape_products is running
InLoop == pc \in {"while", "goto", "wait", "query", "for"}

\* the page source has shown one of the two natural ends: a page without
\* elements, or a fault
NaturalEnd == fault # NoFault \/ (fetched # <<>> /\ Last(fetched) = <<>>)

\* the loop is about to open a page beyond the pages the model follows
BeyondMaxPage == pc = "while" /\ page_number > MaxPage

\* C19: the loop of scrape_products is left when, and only when, the page
\* source has given a page without elements or a fault; as long as every
\* page has elements the loop goes on to the next page index, whatever
\* the index, and each iteration ends.
C19_NaturalTermination ==
    /\ [](LoopLeft => NaturalEnd)
    /\ [](NaturalEnd => LoopLeft)
    /\ [](BeyondMaxPage => ~NaturalEnd /\ Len(requested) = MaxPage)
    /\ (InLoop ~> (LoopLeft \/ BeyondMaxPage))
    /\ \A n \in 1..MaxPage :
          (pc = "goto" /\ page_number = n)
              ~> (LoopLeft \/ (pc = "while" /\ page_number = n + 1))

\* the loop has ended on the empty third page
C19_Witness ==
    /\ pc = "finally"
    /\ fault = NoFault
    /\ Len(fetched) = 3 /\ fetched[1] # <<>> /\ fetched[2] # <<>> /\ fetched[3] = <<>>

\* every page had elements and the loop is still running
C19_WitnessRunning ==
    /\ BeyondMaxPage
    /\ Len(fetched) = MaxPage
    /\ \A p \in 1..MaxPage : fetched[p] # <<>>

\* the page p matched elements and none of them gives a record
NoRecords(p) ==
    /\ fetched[p] # <<>>
    /\ \A j \in 1..Len(fetched[p]) :
          extract_product_data(fetched[p][j], BASE_URL(p)) = None

\* C20: a page that matched elements none of which gives a record does
\* not end the run: once its elements are handled the page index is
\* incremented, and the loop is not left before the next page has been
\* requested.
C20_ExhaustionByElements ==
    \A p \in 1..Len(fetched) :
        NoRecords(p) =>
            /\ (p < Len(fetched) \/ pc # "for") => page_number > p
            /\ (p = Len(fetched) /\ LoopLeft) =>
                  /\ fault.page = p + 1
                  /\ Last(requested) = p + 1

C20_Witness ==
    /\ pc = "wait"
    /\ fetched = << <<E_noname, E_raises>> >>
    /\ records = <<>>
    /\ page_number = 2
    /\ requested = <<1, 2>>

\* get_all_page_urls returns
Discovered == pc = "return_urls"

\* the URLs of the pages 1..n
UrlsTo(n) == [k \in 1..n |-> PageUrl(k)]

\* the pages 1..n of the site have a book and the page n+1 has none
SiteHas(n) == (\A k \in 1..n : site[k]) /\ ~site[n + 1]

C21_WitnessNoLink ==
    /\ pc = "return_urls"
    /\ SiteHas(2)
    /\ probed = <<"no next">>
    /\ page_urls = UrlsTo(1)

\* a probe that ends the discovery: the fetch failed, or the page has no
\* book
Stops(shown) == shown \in {"failed", "no book"}

\* C22: in get_all_page_urls a probe whose fetch fails ends the discovery
\* like a probe that finds no book: the first such index k >= 2 is the
\* last index probed and the list returned is pages 1..k-1; page 1 is
\* always in the list, and it is the whole list when its fetch failed or
\* it has no link to a next page.
C22_FailedProbeEndsDiscovery ==
    /\ pc \in {"first_page", "probe", "return_urls", "scrape", "books_done"} =>
          page_urls # <<>> /\ page_urls[1] = PageUrl(1)
    /\ pc = "probe" =>
          /\ probed = <<"next">> \o [k \in 1..(page_num - 2) |-> "book"]
          /\ page_urls = UrlsTo(page_num - 1)
    /\ pc \in {"return_urls", "scrape", "books_done"} =>
          /\ probed[1] \in {"failed", "no next"} =>
                probed = <<probed[1]>> /\ page_urls = UrlsTo(1)
          /\ probed[1] = "next" =>
                /\ Len(probed) >= 2
                /\ Stops(probed[Len(probed)])
          /\ \A k \in 2..Len(probed) :
                IF Stops(probed[k])
                THEN Len(probed) = k /\ page_urls = UrlsTo(k - 1)
                ELSE probed[k] = "book"

C22_Witness ==
    /\ pc = "return_urls"
    /\ probed = <<"next", "book", "failed">>
    /\ site[3]
    /\ page_urls = UrlsTo(2)

C22_WitnessFirst ==
    /\ pc = "return_urls"
    /\ probed = <<"failed">>
    /\ site[2]
    /\ page_urls = UrlsTo(1)

\* no fetch of the run has failed
NoFetchFailed ==
    /\ \A k \in 1..Len(probed) : probed[k] # "failed"
    /\ \A k \in 1..Len(seen) : seen[k] # None

\* C23 as stated: a run of scrape_all_books that discovers N pages and in
\* which no fetch fails makes 2N+1 fetches.
C23_TwoFetchesPerPagePlusOne ==
    (pc = "books_done" /\ NoFetchFailed) => fetches = 2 * Len(page_urls) + 1

\* C23, amended: every discovered page is fetched once by
\* get_all_page_urls and once by scrape_books_from_page, and the records
\* are those of the second fetch; when no fetch fails a run that
\* discovers N pages makes 2N+1 fetches if the first page has a link to a
\* next page (one more probe ends the discovery) and 2 fetches if it has
\* not (N = 1).
C23_FetchedTwice ==
    /\ pc \in {"first_page", "probe", "return_urls", "scrape", "books_done"} =>
          fetches = Len(probed) + Len(seen)
    /\ pc = "books_done" =>
          /\ Len(seen) = Len(page_urls)
          /\ all_books = BooksOfSeen
          /\ NoFetchFailed =>
                fetches = IF probed[1] = "next"
                          THEN 2 * Len(page_urls) + 1
                          ELSE 2

\* the second page had a book when it was discovered and none when it was
\* fetched again
C23_Witness ==
    /\ pc = "books_done"
    /\ probed = <<"next", "book", "no book">>
    /\ seen = <<[books |-> <<B_full>>], [books |-> <<>>]>>
    /\ fetches = 5
    /\ books_data = <<extract_book_info(B_full)>>

\* the second fetch of the second page fails and the third page still
\* gives its record
C23_WitnessGoesOn ==
    /\ pc = "books_done"
    /\ probed = <<"next", "book", "book", "no book">>
    /\ seen = <<[books |-> <<>>], None, [books |-> <<B_full>>]>>
    /\ books_data = <<extract_book_info(B_full)>>

\* the record has a name and a link
HasKey(r) ==
    /\ {"name", "link"} \subseteq DOMAIN r
    /\ r["name"] \notin {None, NaN}
    /\ r["link"] \notin {None, NaN}

\* C24: every record extract_product_data returns has a name and a link,
\* an element whose anchor raises between the two gives no record, and so
\* every record given to save_to_csv, and every row drop_duplicates
\* compares, has its (name, link) key.
C24_KeyDefined ==
    /\ \A k \in 1..Len(records) : HasKey(records[k])
    /\ saved # None => \A k \in 1..Len(saved.v) : HasKey(saved.v[k])
    /\ df # None => \A k \in 1..Len(df.v) : HasKey(df.v[k])
    /\ (pc = "for" /\ idx > 1 /\ elements[idx - 1].raises = "href") =>
          Len(records) = Len(RecordsOf(SubSeq(Handled, 1, Len(Handled) - 1)))

C24_Witness ==
    /\ pc = "exit"
    /\ fetched = << <<E_hrefraises, E_full>>, <<>> >>
    /\ saved = List(<<extract_product_data(E_full, BASE_URL(1))>>)
    /\ Len(df.v) = 1

\* a sink is called with no record
EmptySink ==
    \/ pc = "save" /\ products.v = <<>>
    \/ pc \in {"books_done", "csv_saved"} /\ books_data = <<>>

\* C25: a sink called with an empty record list writes nothing: the step
\* of save_to_csv of the Lulu scraper, and the steps of save_to_csv and
\* save_to_json of the Books scraper, leave every file as it is.
C25_EmptySinkWritesNothing ==
    [][(EmptySink /\ pc' \in {"exit", "csv_saved", "json_saved"}) => files' = files]_vars

\* the second call of scrape_all_books found no book and the files of the
\* first call are as they were written
C25_Witness ==
    /\ pc = "json_saved"
    /\ spent = 1
    /\ books_data = <<>>
    /\ DOMAIN files = {"books_data.csv", "books_data.json"}
    /\ files["books_data.json"] = dump(<<extract_book_info(B_full)>>)
    /\ Len(files["books_data.csv"].rows) = 1

\* the same for the Lulu scraper
C25_WitnessLulu ==
    /\ pc = "exit"
    /\ spent = 1
    /\ saved = List(<<>>)
    /\ OUTPUT_FILE \in DOMAIN files
    /\ Len(files[OUTPUT_FILE].rows) = 1

\* Math.ceil(filteredBooks.length / booksPerPage) of the current state
TotalPages == ceil(length(filteredBooks))

\* C26: in the script of the generated page the current page stays valid:
\* a call changePage(p) sets currentPage to p when 1 <= p <= totalPages
\* and leaves it as it is otherwise, filterBooks sets it to 1, and so
\* currentPage is 1 or within 1..ceil(filteredBooks.length / 12).
C26_CurrentPageValid ==
    [][pc' = "page" =>
        /\ currentPage' = 1 \/ currentPage' \in 1..TotalPages'
        /\ (called' # called /\ called'.f = "filterBooks") =>
              currentPage' = 1
        /\ (called' # called /\ called'.f = "changePage") =>
              currentPage' = IF called'.arg >= 1 /\ called'.arg <= TotalPages
                             THEN called'.arg
                             ELSE currentPage]_vars

\* the third of three pages is shown
C26_Witness ==
    /\ pc = "page"
    /\ length(filteredBooks) = 2 * booksPerPage + 1
    /\ called = [f |-> "changePage", arg |-> 3]
    /\ currentPage = 3

\* a call changePage(4) on the third of three pages has changed nothing
C26_WitnessRefused ==
    /\ pc = "page"
    /\ TotalPages = 3
    /\ called = [f |-> "changePage", arg |-> 4]
    /\ currentPage = 3

\* the number of questions asked for, when it is not negative
Wanted == IF n_questions < 0 THEN 0 ELSE n_questions

\* C27: in math_quiz the number of questions asked goes up to
\* n_questions, count_correct is the number of answers equal to n1 + n2,
\* with n1 and n2 in 1..9, 0 <= count_correct <= questions asked <=
\* n_questions at every point, and the last line reports count_correct
\* after exactly n_questions questions.
C27_QuizCounts ==
    pc \in {"quiz", "quiz_done", "quiz_traceback"} =>
        /\ 0 <= count_correct
        /\ count_correct <= quiz_i
        /\ quiz_i <= Wanted
        /\ count_correct = right
        /\ quiz_i > 0 => n1 \in 1..9 /\ n2 \in 1..9
        /\ pc = "quiz_done" =>
              /\ quiz_i = Wanted
              /\ report = List(<<right, n_questions>>)

\* two questions were asked; the first answer was wrong, the second right
C27_Witness ==
    /\ pc = "quiz_done"
    /\ n_questions = 2
    /\ quiz_i = 2
    /\ n1 = 3 /\ n2 = 4 /\ user_answer = 7
    /\ count_correct = 1
    /\ report = List(<<1, 2>>)

=============================================================================
